---------------------------- MODULE Spec2Model ----------------------------
(***************************************************************************)
(* Model of src/main.js: a term finder that expands pronouns to their      *)
(* whole class and matches whole space-delimited tokens, "I" exactly and   *)
(* everything else case-insensitively.                                     *)
(*                                                                         *)
(* JavaScript strings are TLA+ strings; a character is a string of length  *)
(* one.  Three characters outside ASCII take part in the case conversions  *)
(* that decide isTermCaseSensitive and are written with ASCII stand-ins:   *)
(*   "@"  U+0131 LATIN SMALL LETTER DOTLESS I   (toUpperCase gives "I")    *)
(*   "#"  U+0130 LATIN CAPITAL LETTER I WITH DOT ABOVE                     *)
(*              (toLowerCase gives "i" followed by U+0307)                 *)
(*   "~"  U+0307 COMBINING DOT ABOVE            (no case)                  *)
(***************************************************************************)
EXTENDS Naturals, Sequences, FiniteSets

(***************************************************************************)
(* Bounds of the checked input space.                                      *)
(***************************************************************************)
MaxTextWords == 2

MaxTerms == 2

(***************************************************************************)
(* The fixed tables, as the array literals initialise them.                *)
(***************************************************************************)
PRONOUNS ==
    << <<"I", "me", "my", "mine", "myself">>,
       <<"we", "us", "our", "ours", "ourselves">>,
       <<"you", "your", "yourself">> >>

CASE_SENSITIVE == <<"I">>

(***************************************************************************)
(* String.prototype.toLowerCase / toUpperCase, character by character.     *)
(***************************************************************************)
UpperLetters == "ABCDEFGHIJKLMNOPQRSTUVWXYZ"

LowerLetters == "abcdefghijklmnopqrstuvwxyz"

CharAt(s, i) == SubSeq(s, i, i)

Letters == 1..Len(UpperLetters)

\* toLowerCase of one character: a string, since U+0130 gives two characters.
LowerChar(c) ==
    IF \E i \in Letters : CharAt(UpperLetters, i) = c
    THEN CharAt(LowerLetters, CHOOSE i \in Letters : CharAt(UpperLetters, i) = c)
    ELSE IF c = "#" THEN "i~" ELSE c

\* toUpperCase of one character.
UpperChar(c) ==
    IF \E i \in Letters : CharAt(LowerLetters, i) = c
    THEN CharAt(UpperLetters, CHOOSE i \in Letters : CharAt(LowerLetters, i) = c)
    ELSE IF c = "@" THEN "I" ELSE c

\* The characters of the model, and the two conversions tabulated over them.
Alphabet ==
    {CharAt(UpperLetters, i) : i \in Letters} \cup
    {CharAt(LowerLetters, i) : i \in Letters} \cup {" ", ",", ")", "@", "#", "~"}

LowerTable == [c \in Alphabet |-> LowerChar(c)]

UpperTable == [c \in Alphabet |-> UpperChar(c)]

RECURSIVE toLowerCase(_)
toLowerCase(s) ==
    IF s = "" THEN "" ELSE LowerTable[Head(s)] \o toLowerCase(Tail(s))

RECURSIVE toUpperCase(_)
toUpperCase(s) ==
    IF s = "" THEN "" ELSE UpperTable[Head(s)] \o toUpperCase(Tail(s))

(***************************************************************************)
(* Array.prototype.includes, map(toLowerCase), String.prototype.split with *)
(* a non-empty separator, and [...new Set(array)].                         *)
(***************************************************************************)
includes(arr, x) == \E i \in DOMAIN arr : arr[i] = x

MapLower(arr) == [i \in DOMAIN arr |-> toLowerCase(arr[i])]

\* String.prototype.indexOf from position i, 1-based; 0 when sep does not occur.
RECURSIVE IndexFrom(_, _, _)
IndexFrom(s, sep, i) ==
    IF i + Len(sep) - 1 > Len(s) THEN 0
    ELSE IF SubSeq(s, i, i + Len(sep) - 1) = sep THEN i
    ELSE IndexFrom(s, sep, i + 1)

IndexOf(s, sep) == IndexFrom(s, sep, 1)

RECURSIVE split(_, _)
split(s, sep) ==
    LET i == IndexOf(s, sep)
    IN  IF i = 0 THEN <<s>>
        ELSE <<SubSeq(s, 1, i - 1)>> \o split(SubSeq(s, i + Len(sep), Len(s)), sep)

RECURSIVE SetSpread(_)
SetSpread(arr) ==
    IF arr = <<>> THEN <<>>
    ELSE LET front == SetSpread(SubSeq(arr, 1, Len(arr) - 1))
             last  == arr[Len(arr)]
         IN  IF includes(front, last) THEN front ELSE Append(front, last)

RECURSIVE Flatten(_)
Flatten(arrs) ==
    IF arrs = <<>> THEN <<>> ELSE Head(arrs) \o Flatten(Tail(arrs))

(***************************************************************************)
(* State.  pronouns and caseSensitive are the contents of the two global   *)
(* arrays.  text and terms are the arguments of findTermInstances;         *)
(* callerTokens and callerTerms are arrays a caller owns and passes to the *)
(* two matchers and, entry by entry, to isTermCaseSensitive.  op names the *)
(* latest call; arg, flag, out, tokens, normalized, merged,                *)
(* caseSensitiveTerms and caseInsensitiveTerms record its argument, its    *)
(* return value and, for findTermInstances, its locals as they are when    *)
(* it returns.  first is what the first call of findTermInstances          *)
(* returned and calls tells whether there was none, one, or more.          *)
(***************************************************************************)
VARIABLES pronouns, caseSensitive, text, terms, callerTokens, callerTerms,
          op, arg, flag, out, tokens, normalized, merged, caseSensitiveTerms,
          caseInsensitiveTerms, first, calls

vars == <<pronouns, caseSensitive, text, terms, callerTokens, callerTerms,
          op, arg, flag, out, tokens, normalized, merged, caseSensitiveTerms,
          caseInsensitiveTerms, first, calls>>

(***************************************************************************)
(* The functions of main.js.                                               *)
(***************************************************************************)
\* Mutant: the term is looked up without being uppercased.
isTermCaseSensitive_NoUpper(term) == includes(caseSensitive, term)

isTermCaseSensitive(term) == includes(caseSensitive, toUpperCase(term))

\* Mutant: the case-sensitive matcher folds case like the other one.
findCaseSensitiveTermInstances_Folded(tx, tms) ==
    SelectSeq(MapLower(tms), LAMBDA term : includes(MapLower(tx), term))

findCaseSensitiveTermInstances(tx, tms) ==
    SelectSeq(tms, LAMBDA term : includes(tx, term))

\* Mutant: only the terms are lowercased, the tokens are compared as they are.
findCaseInsensitiveTermInstances_TextAsIs(tx, tms) ==
    SelectSeq(MapLower(tms), LAMBDA term : includes(tx, term))

findCaseInsensitiveTermInstances(tx, tms) ==
    LET loweredText  == MapLower(tx)
        loweredTerms == MapLower(tms)
    IN  SelectSeq(loweredTerms, LAMBDA term : includes(loweredText, term))

\* Mutant: the arrays are lowercased in place.
ArgumentsAfterCaseInsensitive_InPlace(tx, tms) == <<MapLower(tx), MapLower(tms)>>

\* What the caller's two arrays hold once findCaseInsensitiveTermInstances has
\* returned: map() builds new arrays and the assignments rebind the parameters
\* only, so the caller's arrays are as they were.
ArgumentsAfterCaseInsensitive(tx, tms) == <<tx, tms>>

Tokens(tx) == split(tx, " ")

\* Mutant: the terms are kept as supplied.
NormalizedTerms_AsSupplied(tms) == split(tms, ", ")

NormalizedTerms(tms) ==
    LET raw == split(tms, ", ")
    IN  [i \in DOMAIN raw |->
            IF isTermCaseSensitive(raw[i]) THEN raw[i] ELSE toLowerCase(raw[i])]

\* Mutant: a class is added only when every term is in it (every for some).
additionalPronouns_Every(tms) ==
    Flatten([k \in DOMAIN pronouns |->
                IF \A i \in DOMAIN tms : includes(pronouns[k], tms[i])
                THEN pronouns[k] ELSE <<>>])

additionalPronouns(tms) ==
    Flatten([k \in DOMAIN pronouns |->
                IF \E i \in DOMAIN tms : includes(pronouns[k], tms[i])
                THEN pronouns[k] ELSE <<>>])

\* Mutant: the two arrays are concatenated without passing through a Set.
MergedTerms_NoSet(tms) == tms \o additionalPronouns(tms)

MergedTerms(tms) == SetSpread(tms \o additionalPronouns(tms))

CaseSensitiveTerms(tms) == SelectSeq(tms, isTermCaseSensitive)

CaseInsensitiveTerms(tms) == SelectSeq(tms, LAMBDA term : ~isTermCaseSensitive(term))

\* Mutant: the case-insensitive matches are put first.
Results_InsensitiveFirst(tx, sensitive, insensitive) ==
    findCaseInsensitiveTermInstances(tx, insensitive)
    \o (IF Len(sensitive) > 0
        THEN findCaseSensitiveTermInstances(tx, sensitive) ELSE <<>>)

Results(tx, sensitive, insensitive) ==
    (IF Len(sensitive) > 0
     THEN findCaseSensitiveTermInstances(tx, sensitive) ELSE <<>>)
    \o findCaseInsensitiveTermInstances(tx, insensitive)

findTermInstances(tx, tms) ==
    LET m == MergedTerms(NormalizedTerms(tms))
    IN  Results(Tokens(tx), CaseSensitiveTerms(m), CaseInsensitiveTerms(m))

(***************************************************************************)
(* Inputs: texts of up to MaxTextWords words joined by single spaces,      *)
(* term strings of one to MaxTerms terms joined by ", ", and the four      *)
(* example calls at the end of main.js.                                    *)
(***************************************************************************)
TextWords == {"I", "i", "My"}

TermWords == {"I", "i", "Me", "us"}

RECURSIVE Join(_, _)
Join(ws, sep) ==
    IF ws = <<>> THEN ""
    ELSE IF Len(ws) = 1 THEN ws[1]
    ELSE ws[1] \o sep \o Join(Tail(ws), sep)

SeqsBetween(S, lo, hi) == UNION {[1..k -> S] : k \in lo..hi}

Texts == {Join(ws, " ") : ws \in SeqsBetween(TextWords, 0, MaxTextWords)}

TermStrings == {Join(ws, ", ") : ws \in SeqsBetween(TermWords, 1, MaxTerms)}

Examples ==
    { <<"The Customer is always right", "Customer, you">>,
      <<"The Customer is not our client", "Customer, us">>,
      <<"My rights cannot be abridged by myself, only the Client", "I, Client">>,
      <<"i) In this clause my documents are read", "Me">> }

\* Further calls: doubled spaces, separators without their space, empty
\* strings, terms in capitals, and the characters whose case conversion
\* leaves ASCII.
EdgeInputs ==
    { <<"", "">>,
      <<"I  my ", "ME,I, ">>,
      <<"i I, MINE you", "i, YOU, Mine">>,
      <<"@ i~ I # We", "@, #, we">>,
      <<"customer CUSTOMER", "Customer, customer">>,
      <<"me our I", "ME, us">> }

Inputs == (Texts \X TermStrings) \cup Examples \cup EdgeInputs

Init ==
    /\ pronouns = PRONOUNS
    /\ caseSensitive = CASE_SENSITIVE
    /\ \E in \in Inputs :
          /\ text = in[1]
          /\ terms = in[2]
          /\ callerTokens = split(in[1], " ")
          /\ callerTerms = split(in[2], ", ")
    /\ op = "none"
    /\ arg = ""
    /\ flag = FALSE
    /\ out = <<>>
    /\ tokens = <<>>
    /\ normalized = <<>>
    /\ merged = <<>>
    /\ caseSensitiveTerms = <<>>
    /\ caseInsensitiveTerms = <<>>
    /\ first = <<>>
    /\ calls = "never"

\* The record of a call other than findTermInstances holds no locals of it.
NoLocals ==
    /\ tokens' = <<>>
    /\ normalized' = <<>>
    /\ merged' = <<>>
    /\ caseSensitiveTerms' = <<>>
    /\ caseInsensitiveTerms' = <<>>

\* A call findTermInstances(text, terms).
CallFindTermInstances ==
    LET tk    == Tokens(text)
        nt    == NormalizedTerms(terms)
        m     == MergedTerms(nt)
        cs    == CaseSensitiveTerms(m)
        ci    == CaseInsensitiveTerms(m)
        res   == Results(tk, cs, ci)
        after == ArgumentsAfterCaseInsensitive(tk, ci)
    IN  /\ op' = "findTermInstances"
        /\ arg' = ""
        /\ flag' = FALSE
        /\ out' = res
        /\ normalized' = nt
        /\ merged' = m
        /\ caseSensitiveTerms' = cs
        /\ tokens' = after[1]
        /\ caseInsensitiveTerms' = after[2]
        /\ first' = IF calls = "never" THEN res ELSE first
        /\ calls' = IF calls = "never" THEN "once" ELSE "again"
        /\ UNCHANGED <<pronouns, caseSensitive, text, terms, callerTokens,
                       callerTerms>>

\* A call findCaseSensitiveTermInstances(callerTokens, callerTerms).
CallFindCaseSensitive ==
    /\ op' = "findCaseSensitiveTermInstances"
    /\ arg' = ""
    /\ flag' = FALSE
    /\ out' = findCaseSensitiveTermInstances(callerTokens, callerTerms)
    /\ NoLocals
    /\ UNCHANGED <<pronouns, caseSensitive, text, terms, callerTokens, callerTerms,
                   first, calls>>

\* A call findCaseInsensitiveTermInstances(callerTokens, callerTerms).
CallFindCaseInsensitive ==
    LET after == ArgumentsAfterCaseInsensitive(callerTokens, callerTerms)
    IN  /\ op' = "findCaseInsensitiveTermInstances"
        /\ arg' = ""
        /\ flag' = FALSE
        /\ out' = findCaseInsensitiveTermInstances(callerTokens, callerTerms)
        /\ callerTokens' = after[1]
        /\ callerTerms' = after[2]
        /\ NoLocals
        /\ UNCHANGED <<pronouns, caseSensitive, text, terms, first, calls>>

\* A call isTermCaseSensitive(t) on one of the caller's terms.
CallIsTermCaseSensitive ==
    \E i \in DOMAIN callerTerms :
        /\ op' = "isTermCaseSensitive"
        /\ arg' = callerTerms[i]
        /\ flag' = isTermCaseSensitive(callerTerms[i])
        /\ out' = <<>>
        /\ NoLocals
        /\ UNCHANGED <<pronouns, caseSensitive, text, terms, callerTokens,
                       callerTerms, first, calls>>

Next ==
    \/ CallFindTermInstances
    \/ CallFindCaseSensitive
    \/ CallFindCaseInsensitive
    \/ CallIsTermCaseSensitive

Spec == Init /\ [][Next]_vars

(***************************************************************************)
(* Vocabulary of the properties.                                           *)
(***************************************************************************)
Range(seq) == {seq[i] : i \in DOMAIN seq}

Returned == op = "findTermInstances"

\* The terms as supplied, and a term after normalisation.
Supplied == split(terms, ", ")

Normal(t) == IF toUpperCase(t) = "I" THEN t ELSE toLowerCase(t)

SuppliedNormal == {Normal(Supplied[i]) : i \in DOMAIN Supplied}

ClassOf(k) == Range(PRONOUNS[k])

\* Some normalised supplied term is a member of class k.
Triggered(k) == SuppliedNormal \cap ClassOf(k) # {}

\* A whole space-delimited token of the text matches r.
MatchesToken(r) ==
    LET tk == split(text, " ")
    IN  IF toUpperCase(r) = "I"
        THEN \E i \in DOMAIN tk : tk[i] = r
        ELSE \E i \in DOMAIN tk : toLowerCase(tk[i]) = r

RECURSIVE IsSubsequence(_, _)
IsSubsequence(a, b) ==
    IF a = <<>> THEN TRUE
    ELSE IF b = <<>> THEN FALSE
    ELSE IF Head(a) = Head(b) THEN IsSubsequence(Tail(a), Tail(b))
    ELSE IsSubsequence(a, Tail(b))

HasDuplicates(seq) == \E i, j \in DOMAIN seq : i # j /\ seq[i] = seq[j]

(***************************************************************************)
(* C1.  Pronoun expansion is class-complete: when a normalised supplied    *)
(* term is a member of a pronoun class, every member of that class is in   *)
(* the merged term list, and so in one of the two partitions matched.      *)
(***************************************************************************)
C1_ClassComplete ==
    Returned =>
        \A k \in DOMAIN PRONOUNS :
            Triggered(k) =>
                /\ ClassOf(k) \subseteq Range(merged)
                /\ ClassOf(k) \subseteq
                       Range(caseSensitiveTerms) \cup Range(caseInsensitiveTerms)

\* "Me" alone was supplied and the whole first class is searched.
C1_Witness ==
    /\ Returned
    /\ Supplied = <<"Me">>
    /\ {"I", "me", "my", "mine", "myself"} \subseteq Range(merged)

(***************************************************************************)
(* C2.  r is returned exactly when r is a merged term and a whole token    *)
(* matches it: the unmodified token equals r when r is case-sensitive,     *)
(* the lowercased token equals r otherwise.                                *)
(***************************************************************************)
C2_WholeTokenMatch ==
    Returned =>
        \A r \in Range(merged) \cup Range(out) :
            r \in Range(out) <=> (r \in Range(merged) /\ MatchesToken(r))

\* Token "My" yields "my" while token "i" does not yield the searched "I".
C2_Witness ==
    /\ Returned
    /\ includes(tokens, "My") /\ includes(out, "my")
    /\ includes(tokens, "i") /\ includes(merged, "I") /\ ~includes(out, "I")

(***************************************************************************)
(* C3.  In the returned sequence no case-insensitive match comes before a  *)
(* case-sensitive match (a term whose uppercase is "I").                   *)
(***************************************************************************)
C3_SensitiveFirst ==
    Returned =>
        \A i, j \in DOMAIN out :
            i < j => ~(toUpperCase(out[i]) # "I" /\ toUpperCase(out[j]) = "I")

\* A result holding a case-sensitive match followed by a case-insensitive one.
C3_Witness ==
    /\ Returned
    /\ \E i, j \in DOMAIN out :
          i < j /\ toUpperCase(out[i]) = "I" /\ toUpperCase(out[j]) # "I"

(***************************************************************************)
(* C4.  Both matchers return a subsequence of the terms they were given.   *)
(***************************************************************************)
C4_MatchersReturnGivenTerms ==
    op \in {"findCaseSensitiveTermInstances", "findCaseInsensitiveTermInstances"}
        => IsSubsequence(out, callerTerms)

(***************************************************************************)
(* C5.  findTermInstances("The Customer is always right", "Customer, you") *)
(* returns exactly <<"Customer">>.                                         *)
(***************************************************************************)
C5_ExampleOne ==
    (Returned /\ text = "The Customer is always right" /\ terms = "Customer, you")
        => out = <<"Customer">>

(***************************************************************************)
(* C6.  isTermCaseSensitive(t) is true exactly when the uppercase of t is  *)
(* "I", agrees on t and its uppercase, and inside findTermInstances a      *)
(* merged term lands in the case-sensitive partition exactly when its      *)
(* uppercase is "I", whatever the text.                                    *)
(***************************************************************************)
C6_ClassifierByUppercase ==
    /\ op = "isTermCaseSensitive" =>
          /\ flag = (toUpperCase(arg) = "I")
          /\ flag = isTermCaseSensitive(toUpperCase(arg))
    /\ Returned =>
          \A t \in Range(merged) :
              /\ t \in Range(caseSensitiveTerms) <=> toUpperCase(t) = "I"
              /\ t \in Range(caseInsensitiveTerms) <=> toUpperCase(t) # "I"

\* The lowercase "i" was classified case-sensitive.
C6_Witness == op = "isTermCaseSensitive" /\ arg = "i" /\ flag

(***************************************************************************)
(* C7.  As claimed: some text and terms string make findTermInstances      *)
(* return a sequence holding the same string twice.                        *)
(***************************************************************************)
C7_DuplicatesPossible ==
    \E in \in Inputs : HasDuplicates(findTermInstances(in[1], in[2]))

\* C7 as amended: the sequence findTermInstances returns holds no string twice.
C7_NoDuplicates == Returned => ~HasDuplicates(out)

\* A term supplied twice (after normalisation) is returned, once.
C7_Witness ==
    /\ Returned
    /\ \E i, j \in DOMAIN normalized :
          i # j /\ normalized[i] = normalized[j] /\ includes(out, normalized[i])

C9_ResultHoldsWholeClass ==
    Returned =>
        \A k \in DOMAIN PRONOUNS : Triggered(k) => ClassOf(k) \subseteq Range(out)

\* C9 as amended: of a triggered class the result holds the members that match
\* a whole token of the text, and only those.
C9_ResultHoldsMatchingMembers ==
    Returned =>
        \A k \in DOMAIN PRONOUNS :
            Triggered(k) =>
                \A m \in ClassOf(k) : m \in Range(out) <=> MatchesToken(m)

\* A triggered class of which one member, not supplied, is returned and another is not.
C9_Witness ==
    /\ Returned
    /\ \E k \in DOMAIN PRONOUNS :
          /\ Triggered(k)
          /\ \E m \in ClassOf(k) \ SuppliedNormal : m \in Range(out)
          /\ \E m \in ClassOf(k) : m \notin Range(out)

(***************************************************************************)
(* C10.  A class is triggered only by equality after normalisation: a      *)
(* merged class member that was not supplied implies a normalised supplied *)
(* term in its class; "Me" and "ME" trigger the first class; "i" is        *)
(* case-sensitive, kept, triggers nothing and matches the token "i" only.  *)
(***************************************************************************)
C10_TriggeredByEqualityOnly ==
    Returned =>
        /\ \A k \in DOMAIN PRONOUNS :
              \A m \in ClassOf(k) :
                  (m \in Range(merged) /\ m \notin SuppliedNormal) => Triggered(k)
        /\ ("Me" \in Range(Supplied) \/ "ME" \in Range(Supplied))
              => ClassOf(1) \subseteq Range(merged)
        /\ "i" \in Range(Supplied) =>
              /\ "i" \in Range(caseSensitiveTerms)
              /\ "i" \in Range(out) <=> "i" \in Range(split(text, " "))
        /\ Range(Supplied) = {"i"} => merged = <<"i">>

\* "i" alone was supplied: the text holds "I" and "i", and only "i" is returned.
C10_Witness ==
    /\ Returned
    /\ Supplied = <<"i">>
    /\ includes(tokens, "I") /\ includes(tokens, "i")
    /\ out = <<"i">>

=============================================================================
